---- MODULE Spec2Model ----
(***************************************************************************)
(* Subscription tracking and serializability engine of the qwik core       *)
(* (state/common.ts): LocalSubscriptionManager and the container-wide      *)
(* group index, the subscription codec (serializeSubscription /            *)
(* parseSubscription) and verifySerializable.                              *)
(*                                                                         *)
(* The state machines of the module share its variables:                   *)
(*   Spec           the subscription managers of one container             *)
(*   SpecContainer  the same, driven through the container's operations    *)
(*   SpecCodec      serializeSubscription followed by parseSubscription    *)
(*   SpecDecode     parseSubscription on damaged records                   *)
(*   SpecVerify     verifySerializable walking a value graph               *)
(***************************************************************************)
EXTENDS Integers, Sequences, FiniteSets, TLC

VARIABLES
  \* ---- subscription managers of one container
  created,          \* the LocalSubscriptionManager objects constructed so far
  subs,             \* manager -> its $subs$ array
  groupToManagers,  \* the container's Map: group -> array of managers
  scheduled,        \* edges handed to notifyChange by the last operation, in order
  last,             \* the last operation, when it was $addSub$ of a type-0 subscriber,
                    \* removed an edge or stored one of a group emptied by $clearSub$,
                    \* with the $subs$ arrays it found
  cleared,          \* group -> managers emptied by $clearSub$ with no edge of it added since
  \* ---- codec
  cpc, sub, objIds, objects, record, parsed,
  \* ---- verifier
  vpc, heap, root, noSerializeSet, seen, vstack, vresult

mvars == <<created, subs, groupToManagers, scheduled, last, cleared>>
cvars == <<cpc, sub, objIds, objects, record, parsed>>
vvars == <<vpc, heap, root, noSerializeSet, seen, vstack, vresult>>
vars == <<mvars, cvars, vvars>>

(***************************************************************************)
(* JavaScript values. A string is the sequence of its characters.          *)
(***************************************************************************)
Undef == [k |-> "undefined", o |-> "", s |-> <<>>]
Obj(name) == [k |-> "object", o |-> name, s |-> <<>>]
Str(chars) == [k |-> "string", o |-> "", s |-> chars]

\* ToBoolean: undefined and the empty string are falsy, objects are truthy
Truthy(v) == v.k = "object" \/ (v.k = "string" /\ v.s # <<>>)

Range(s) == {s[i] : i \in DOMAIN s}

Max(a, b) == IF a >= b THEN a ELSE b

(***************************************************************************)
(* Subscription managers and the group index                               *)
(***************************************************************************)
MaxSubs == 3      \* edges stored in the container, over all its managers
MaxBulk == 2      \* edges handed to one $addSubs$ call

Managers == {"m1", "m2"}

hostA == Obj("hostA")      \* an element (SubscriberHost)
taskT == Obj("taskT")      \* a task (SubscriberEffect) whose $el$ is hostA
taskX == Obj("taskX")      \* a task whose $el$ is gone
sigS  == Obj("sigS")       \* a Signal
elE   == Obj("elE")        \* an element or node

Groups == {hostA, taskT}
Keys == {Undef, Str(<<>>), Str(<<"k">>), Str(<<"j">>)}

\* Subscriber: what $addSub$ is given (an edge without its trailing key)
SubscribersA == {<<0, g>> : g \in Groups}
SubscribersB == {<<1, hostA, sigS, elE, Str(<<"p">>)>>}
SubscribersC == {<<3, taskT, sigS, elE>>}
Subscribers == SubscribersA \cup SubscribersB \cup SubscribersC

\* the keys a subscriber is added under
KeysOf(s) ==
  IF s[1] # 0 THEN {Undef}
  ELSE IF s[2] = hostA THEN {Undef, Str(<<>>)}
  ELSE {Str(<<"k">>)}

\* Subscriptions: a stored edge, [...sub, key]
Subscriptions == UNION {{Append(s, key) : key \in KeysOf(s)} : s \in Subscribers}

\* the edges handed over in bulk, to $addSubs$ and as initialMap
BulkEdges == {<<0, hostA, Undef>>, <<0, taskT, Str(<<"k">>)>>, <<3, taskT, sigS, elE, Undef>>}
BulkSubs == UNION {[1..n -> BulkEdges] : n \in 0..MaxBulk}

TotalSubs == Len(subs["m1"]) + Len(subs["m2"])

\* subs.splice(i, 1), i counted from 0
Splice(s, i) == [j \in 1..(Len(s) - 1) |-> IF j <= i THEN s[j] ELSE s[j + 1]]

\* $addToGroup$ pushing the manager without the includes test
AddToGroup_NoIncludes(g2m, group, manager) ==
  LET managers == IF group \in DOMAIN g2m THEN g2m[group] ELSE <<>>
  IN  [x \in DOMAIN g2m \cup {group} |-> IF x = group THEN Append(managers, manager) ELSE g2m[x]]

\* $addToGroup$ without the Map.set of a list for a group that has none
AddToGroup_NoSet(g2m, group, manager) ==
  IF group \notin DOMAIN g2m THEN g2m
  ELSE [g2m EXCEPT ![group] = IF manager \in Range(@) THEN @ ELSE Append(@, manager)]

\* $addToGroup$(group, manager) on the Map g2m
AddToGroup(g2m, group, manager) ==
  LET managers == IF group \in DOMAIN g2m THEN g2m[group] ELSE <<>>
      pushed == IF manager \in Range(managers) THEN managers ELSE Append(managers, manager)
  IN  [x \in DOMAIN g2m \cup {group} |-> IF x = group THEN pushed ELSE g2m[x]]

\* for (const sub of this.$subs$) this.$addToGroup$(sub[1], this)
RECURSIVE AddAllToGroup(_, _, _, _)
AddAllToGroup(g2m, s, i, manager) ==
  IF i > Len(s) THEN g2m
  ELSE AddAllToGroup(AddToGroup(g2m, s[i][2], manager), s, i + 1, manager)

\* the loop of $unsubGroup$ without its i-- after the splice
RECURSIVE UnsubGroup_NoStepBack(_, _, _)
UnsubGroup_NoStepBack(s, i, group) ==
  IF i >= Len(s) THEN s
  ELSE IF s[i + 1][2] = group THEN UnsubGroup_NoStepBack(Splice(s, i), i + 1, group)
       ELSE UnsubGroup_NoStepBack(s, i + 1, group)

\* $unsubGroup$ filling the slot of a removed edge with the last edge of the array
RECURSIVE UnsubGroup_SwapRemove(_, _, _)
UnsubGroup_SwapRemove(s, i, group) ==
  IF i >= Len(s) THEN s
  ELSE IF s[i + 1][2] = group
       THEN UnsubGroup_SwapRemove(
              [j \in 1..(Len(s) - 1) |-> IF j = i + 1 THEN s[Len(s)] ELSE s[j]], i, group)
       ELSE UnsubGroup_SwapRemove(s, i + 1, group)

\* $unsubGroup$: for (i = 0; i < subs.length; i++) if (subs[i][1] === group) { splice; i-- }
RECURSIVE UnsubGroup(_, _, _)
UnsubGroup(s, i, group) ==
  IF i >= Len(s) THEN s
  ELSE IF s[i + 1][2] = group THEN UnsubGroup(Splice(s, i), i, group)
       ELSE UnsubGroup(s, i + 1, group)

\* the match of $unsubEntry$ comparing the fifth field whatever the type
EntryMatch_FifthField(e, entry) ==
  /\ e[1] = entry[1]
  /\ e[2] = entry[2]
  /\ e[3] = entry[3]
  /\ e[4] = entry[4]
  /\ e[5] = entry[5]

\* the match of $unsubEntry$: property compared for type 1 and 2 only
EntryMatch(e, entry) ==
  /\ e[1] = entry[1]
  /\ e[2] = entry[2]
  /\ e[3] = entry[3]
  /\ e[4] = entry[4]
  /\ (entry[1] \in {1, 2} => e[5] = entry[5])

\* $unsubEntry$
RECURSIVE UnsubEntry(_, _, _)
UnsubEntry(s, i, entry) ==
  IF ~(entry[1] \in {1, 2, 3, 4}) THEN s
  ELSE IF i >= Len(s) THEN s
  ELSE IF EntryMatch(s[i + 1], entry) THEN UnsubEntry(Splice(s, i), i, entry)
       ELSE UnsubEntry(s, i + 1, entry)

\* the duplicate test of $addSub$ made only when a key is given
HasSubA_KeyedOnly(s, group, key) ==
  Truthy(key) /\ \E i \in DOMAIN s : s[i][1] = 0 /\ s[i][2] = group /\ s[i][3] = key

\* subs.some(([_type, _group, _key]) => _type === 0 && _group === group && _key === key)
HasSubA(s, group, key) ==
  \E i \in DOMAIN s : s[i][1] = 0 /\ s[i][2] = group /\ s[i][3] = key

\* $notifySubs$ treating only an absent key as "no key"
RECURSIVE NotifySubs_StrictKey(_, _, _)
NotifySubs_StrictKey(s, i, key) ==
  IF i > Len(s) THEN <<>>
  ELSE LET compare == s[i][Len(s[i])]
       IN  IF key # Undef /\ compare # Undef /\ compare # key
           THEN NotifySubs_StrictKey(s, i + 1, key)
           ELSE <<s[i]>> \o NotifySubs_StrictKey(s, i + 1, key)

\* $notifySubs$: the edges passed to notifyChange, in call order
RECURSIVE NotifySubs(_, _, _)
NotifySubs(s, i, key) ==
  IF i > Len(s) THEN <<>>
  ELSE LET compare == s[i][Len(s[i])]
       IN  IF Truthy(key) /\ Truthy(compare) /\ compare # key
           THEN NotifySubs(s, i + 1, key)
           ELSE <<s[i]>> \o NotifySubs(s, i + 1, key)

\* groups of the edges of s
GroupsOf(s) == {s[i][2] : i \in DOMAIN s}

\* last: the $addSub$ call of a type-0 subscriber that was the last operation, if it was
NoSubs == [m \in Managers |-> <<>>]
NoAddSub ==
  [op |-> "-", m |-> "-", sub |-> <<>>, key |-> Undef, twice |-> FALSE, n |-> 0,
   before |-> NoSubs, managers |-> <<>>]

\* an operation that removed an edge: its name, its arguments, the $subs$ arrays it found
\* and, for $clearSub$, its local array managers as the call left it
Removal(op, m, entry, group, list) ==
  [op |-> op, m |-> m, sub |-> entry, key |-> group, twice |-> FALSE, n |-> 0,
   before |-> subs, managers |-> list]

CountA(s, group, key) ==
  Cardinality({i \in DOMAIN s : s[i][1] = 0 /\ s[i][2] = group /\ s[i][3] = key})

NoCleared == [g \in Groups |-> {}]
Readded(m, gs) == [g \in Groups |-> IF g \in gs THEN {} ELSE cleared[g]]

\* SubscriberSignal values handed to $unsubEntry$ and $clearSignal$
SignalEntries ==
  {Append(s, Undef) : s \in SubscribersB \cup SubscribersC}
    \cup {<<1, hostA, sigS, elE, Str(<<"q">>), Undef>>, <<4, taskT, sigS, elE, Undef>>,
          <<3, taskT, sigS, elE, Str(<<"k">>)>>, <<3, hostA, sigS, elE, Undef>>,
          <<3, taskT, elE, elE, Undef>>, <<3, taskT, sigS, hostA, Undef>>}

\* an operation that stored an edge of a group which $clearSub$ had emptied and of which
\* no edge was added since; any other addition is not recorded
Readd(m, gs) ==
  IF \E g \in gs : cleared[g] # {}
  THEN Removal("readd", m, <<>>, CHOOSE g \in gs : cleared[g] # {}, <<>>)
  ELSE NoAddSub

OtherVarsM == UNCHANGED cvars /\ UNCHANGED vvars

\* the edges of ss pushed one by one with the duplicate test of $addSub$
RECURSIVE PushDedup(_, _, _)
PushDedup(s, ss, i) ==
  IF i > Len(ss) THEN s
  ELSE IF ss[i][1] = 0 /\ HasSubA(s, ss[i][2], ss[i][3]) THEN PushDedup(s, ss, i + 1)
       ELSE PushDedup(Append(s, ss[i]), ss, i + 1)

\* $addSubs$ leaving out the type-0 edges already stored
AddSubsEffect_Dedup(m, ss) ==
  LET pushed == PushDedup(subs[m], ss, 1)
  IN  /\ subs' = [subs EXCEPT ![m] = pushed]
      /\ groupToManagers' = AddAllToGroup(groupToManagers, pushed, 1, m)
      /\ cleared' = Readded(m, GroupsOf(ss))

\* this.$subs$.push(...subs); for (const sub of this.$subs$) this.$addToGroup$(sub[1], this)
AddSubsEffect(m, ss) ==
  LET pushed == subs[m] \o ss
  IN  /\ subs' = [subs EXCEPT ![m] = pushed]
      /\ groupToManagers' = AddAllToGroup(groupToManagers, pushed, 1, m)
      /\ cleared' = Readded(m, GroupsOf(ss))

\* $createManager$(initialMap): new LocalSubscriptionManager(groupToManagers, containerState, initialMap)
CreateManager(m, initialMap) ==
  /\ m \notin created
  /\ TotalSubs + Len(initialMap) <= MaxSubs
  /\ created' = created \cup {m}
  /\ AddSubsEffect(m, initialMap)
  /\ scheduled' = <<>>
  /\ last' = Readd(m, GroupsOf(initialMap))
  /\ OtherVarsM

\* manager.$addSubs$(subs)
AddSubs(m, ss) ==
  /\ m \in created
  /\ TotalSubs + Len(ss) <= MaxSubs
  /\ AddSubsEffect(m, ss)
  /\ scheduled' = <<>>
  /\ last' = Readd(m, GroupsOf(ss))
  /\ UNCHANGED created
  /\ OtherVarsM

\* manager.$addSub$(sub, key)
AddSub(m, s, key) ==
  LET group == s[2]
      dup == s[1] = 0 /\ HasSubA(subs[m], group, key)
      again == last.op = "addSub" /\ last.m = m /\ last.sub = s /\ last.key = key
  IN  /\ m \in created
      /\ dup \/ TotalSubs < MaxSubs
      /\ IF dup
         THEN UNCHANGED <<subs, groupToManagers, cleared>>
         ELSE /\ subs' = [subs EXCEPT ![m] = Append(@, Append(s, key))]
              /\ groupToManagers' = AddToGroup(groupToManagers, group, m)
              /\ cleared' = Readded(m, {group})
      /\ scheduled' = <<>>
      /\ last' = IF s[1] # 0 THEN Readd(m, {group})
                 ELSE [op |-> "addSub", m |-> m, sub |-> s, key |-> key, twice |-> again,
                       n |-> IF again THEN last.n ELSE CountA(subs[m], group, key),
                       before |-> NoSubs, managers |-> <<>>]
      /\ UNCHANGED created
      /\ OtherVarsM

\* manager.$unsubGroup$(group)
UnsubGroupOp(m, group) ==
  /\ m \in created
  /\ subs' = [subs EXCEPT ![m] = UnsubGroup(@, 0, group)]
  /\ scheduled' = <<>>
  /\ last' = IF subs' = subs THEN NoAddSub ELSE Removal("unsubGroup", m, <<>>, group, <<>>)
  /\ UNCHANGED <<created, groupToManagers, cleared>>
  /\ OtherVarsM

\* manager.$unsubEntry$(entry)
UnsubEntryOp(m, entry) ==
  /\ m \in created
  /\ subs' = [subs EXCEPT ![m] = UnsubEntry(@, 0, entry)]
  /\ scheduled' = <<>>
  /\ last' = IF subs' = subs THEN NoAddSub ELSE Removal("unsubEntry", m, entry, Undef, <<>>)
  /\ UNCHANGED <<created, groupToManagers, cleared>>
  /\ OtherVarsM

\* $notifySubs$ dropping from $subs$ the edges it passed to notifyChange
NotifySubsOp_Consuming(m, key) ==
  /\ m \in created
  /\ scheduled' = NotifySubs(subs[m], 1, key)
  /\ subs' = [subs EXCEPT ![m] = SelectSeq(@, LAMBDA e : e \notin Range(scheduled'))]
  /\ last' = NoAddSub
  /\ UNCHANGED <<created, groupToManagers, cleared>>
  /\ OtherVarsM

\* manager.$notifySubs$(key)
NotifySubsOp(m, key) ==
  /\ m \in created
  /\ scheduled' = NotifySubs(subs[m], 1, key)
  /\ last' = NoAddSub
  /\ UNCHANGED <<created, subs, groupToManagers, cleared>>
  /\ OtherVarsM

\* array.length = n
SetLength(s, n) == SubSeq(s, 1, n)

\* $clearSub$ deleting the Map entry without managers.length = 0
ClearSub_NoTruncate(group) ==
  LET managers == IF group \in DOMAIN groupToManagers THEN groupToManagers[group] ELSE <<>>
  IN  /\ subs' = [m \in Managers |->
                    IF m \in Range(managers) THEN UnsubGroup(subs[m], 0, group) ELSE subs[m]]
      /\ groupToManagers' = [x \in DOMAIN groupToManagers \ {group} |-> groupToManagers[x]]
      /\ cleared' = [cleared EXCEPT ![group] = @ \cup Range(managers)]
      /\ scheduled' = <<>>
      /\ last' = IF group \in DOMAIN groupToManagers
                 THEN Removal("clearSub", "-", <<>>, group, managers)
                 ELSE NoAddSub
      /\ UNCHANGED created
      /\ OtherVarsM

\* container $clearSub$(group)
ClearSub(group) ==
  LET managers == IF group \in DOMAIN groupToManagers THEN groupToManagers[group] ELSE <<>>
  IN  /\ subs' = [m \in Managers |->
                    IF m \in Range(managers) THEN UnsubGroup(subs[m], 0, group) ELSE subs[m]]
      /\ groupToManagers' = [x \in DOMAIN groupToManagers \ {group} |-> groupToManagers[x]]
      /\ cleared' = [cleared EXCEPT ![group] = @ \cup Range(managers)]
      /\ scheduled' = <<>>
      /\ last' = IF group \in DOMAIN groupToManagers
                 THEN Removal("clearSub", "-", <<>>, group, SetLength(managers, 0))
                 ELSE NoAddSub
      /\ UNCHANGED created
      /\ OtherVarsM

\* $clearSignal$ calling $unsubEntry$ on the first listed manager only
ClearSignal_FirstOnly(signal) ==
  LET managers == IF signal[2] \in DOMAIN groupToManagers THEN groupToManagers[signal[2]] ELSE <<>>
  IN  /\ subs' = [m \in Managers |->
                    IF managers # <<>> /\ m = managers[1]
                    THEN UnsubEntry(subs[m], 0, signal) ELSE subs[m]]
      /\ scheduled' = <<>>
      /\ last' = IF subs' = subs THEN NoAddSub ELSE Removal("clearSignal", "-", signal, Undef, <<>>)
      /\ UNCHANGED <<created, groupToManagers, cleared>>
      /\ OtherVarsM

\* container $clearSignal$(signal)
ClearSignal(signal) ==
  LET managers == IF signal[2] \in DOMAIN groupToManagers THEN groupToManagers[signal[2]] ELSE <<>>
  IN  /\ subs' = [m \in Managers |->
                    IF m \in Range(managers) THEN UnsubEntry(subs[m], 0, signal) ELSE subs[m]]
      /\ scheduled' = <<>>
      /\ last' = IF subs' = subs THEN NoAddSub ELSE Removal("clearSignal", "-", signal, Undef, <<>>)
      /\ UNCHANGED <<created, groupToManagers, cleared>>
      /\ OtherVarsM

IdleC ==
  /\ cpc = "idle" /\ sub = <<>> /\ objIds = {} /\ objects = {}
  /\ record = Undef /\ parsed = Undef

IdleV ==
  /\ vpc = "idle" /\ heap = <<>> /\ root = "undefined" /\ noSerializeSet = {}
  /\ seen = {} /\ vstack = <<>> /\ vresult = [k |-> "none", v |-> "", ctx |-> <<>>]

\* createSubscriptionManager(containerState): an empty Map, no manager yet
Init ==
  /\ created = {}
  /\ subs = [m \in Managers |-> <<>>]
  /\ groupToManagers = <<>>
  /\ scheduled = <<>>
  /\ last = NoAddSub
  /\ cleared = NoCleared
  /\ IdleC /\ IdleV

Next ==
  \/ \E m \in Managers, initialMap \in BulkSubs : CreateManager(m, initialMap)
  \/ \E m \in Managers, ss \in BulkSubs : AddSubs(m, ss)
  \/ \E m \in Managers, s \in Subscribers : \E key \in KeysOf(s) : AddSub(m, s, key)
  \/ \E m \in Managers, group \in Groups : UnsubGroupOp(m, group)
  \/ \E m \in Managers, entry \in SignalEntries : UnsubEntryOp(m, entry)
  \/ \E m \in Managers, key \in Keys : NotifySubsOp(m, key)
  \/ \E group \in Groups : ClearSub(group)
  \/ \E signal \in SignalEntries : ClearSignal(signal)

Spec == Init /\ [][Next]_vars

\* the container driven through $createManager$, $addSub$, $addSubs$, $notifySubs$,
\* $clearSub$ and $clearSignal$ only
NextContainer ==
  \/ \E m \in Managers, initialMap \in BulkSubs : CreateManager(m, initialMap)
  \/ \E m \in Managers, ss \in BulkSubs : AddSubs(m, ss)
  \/ \E m \in Managers, s \in Subscribers : \E key \in KeysOf(s) : AddSub(m, s, key)
  \/ \E m \in Managers, key \in Keys : NotifySubsOp(m, key)
  \/ \E group \in Groups : ClearSub(group)
  \/ \E signal \in SignalEntries : ClearSignal(signal)

SpecContainer == Init /\ [][NextContainer]_vars

(***************************************************************************)
(* Subscription codec: serializeSubscription and parseSubscription          *)
(***************************************************************************)
MaxKeyLen == 1     \* characters of a subscription key

Null == Undef                                        \* null and undefined: both == null
Throw(message) == [k |-> "throw", o |-> message, s |-> <<>>]
Arr(elements) == [k |-> "array", o |-> "", s |-> elements]

Digits == <<"0", "1", "2", "3", "4", "5", "6", "7", "8", "9">>
KeyChars == {"k", " ", "%"}

\* the objects of the paused container and the ids the container gave them
AllObjects == {hostA, taskT, taskX, sigS, elE}
IdOf(obj) ==
  CASE obj = hostA -> <<"1", "2">>
    [] obj = taskT -> <<"7">>
    [] obj = taskX -> <<"8">>
    [] obj = sigS  -> <<"3">>
    [] obj = elE   -> <<"#", "5">>

\* getObjId(obj): the id of an object that is part of the serialized graph, else null
GetObjId(obj, ids) == IF obj \in ids THEN Str(IdOf(obj)) ELSE Null

\* getObject(id): the object restored under the id, else undefined
GetObject(id, objs) ==
  IF id.k = "string" /\ \E obj \in objs : IdOf(obj) = id.s
  THEN CHOOSE obj \in objs : IdOf(obj) = id.s
  ELSE Undef

\* isSubscriberDescriptor(obj) and the task's $el$
IsSubscriberDescriptor(obj) == obj \in {taskT, taskX}
El(obj) == IF obj = taskT THEN hostA ELSE Undef

\* must(a) without its null test
Must_Unchecked(a) == a

\* must(a): throws when a == null
Must(a) == IF a = Null THEN Throw("must be non null") ELSE a

\* `${value}` of a template literal
TemplateString(v) ==
  IF v.k = "string" THEN v.s
  ELSE IF v = Undef THEN <<"n", "u", "l", "l">>
  ELSE <<"[", "o", "b", "j", "e", "c", "t", "]">>

\* encodeURI over the characters of a key: the space and the percent sign are escaped
RECURSIVE EncodeURI(_)
EncodeURI(chars) ==
  IF chars = <<>> THEN <<>>
  ELSE (CASE chars[1] = " " -> <<"%", "2", "0">>
          [] chars[1] = "%" -> <<"%", "2", "5">>
          [] OTHER -> <<chars[1]>>) \o EncodeURI(Tail(chars))

HexDigits == Range(Digits) \cup {"a", "b", "c", "d", "e", "f", "A", "B", "C", "D", "E", "F"}

\* decodeURI: %20 and %25 are the escapes of the modelled characters; another escape
\* stands for a character outside them ("?"); a % without two hex digits is a URIError
RECURSIVE DecodeURI(_)
DecodeURI(chars) ==
  IF chars = <<>> THEN Str(<<>>)
  ELSE IF chars[1] # "%"
       THEN LET rest == DecodeURI(Tail(chars))
            IN  IF rest.k = "throw" THEN rest ELSE Str(<<chars[1]>> \o rest.s)
  ELSE IF Len(chars) < 3 \/ chars[2] \notin HexDigits \/ chars[3] \notin HexDigits
       THEN Throw("URIError")
  ELSE LET rest == DecodeURI(SubSeq(chars, 4, Len(chars)))
           char == CASE <<chars[2], chars[3]>> = <<"2", "0">> -> " "
                     [] <<chars[2], chars[3]>> = <<"2", "5">> -> "%"
                     [] OTHER -> "?"
       IN  IF rest.k = "throw" THEN rest ELSE Str(<<char>> \o rest.s)

\* safeDecode(str)
SafeDecode(str) == IF str # Undef THEN DecodeURI(str.s) ELSE Undef

\* the key suffix of serializeSubscription written without encodeURI
KeySuffix_Raw(key) == IF Truthy(key) THEN <<" ">> \o key.s ELSE <<>>

\* if (key) base += ` ${encodeURI(key)}`
KeySuffix(key) == IF Truthy(key) THEN <<" ">> \o EncodeURI(key.s) ELSE <<>>

\* the node id of a type 3 or 4 edge taken from getObjId whatever sub[3] is
NodeID_Resolved(node, ids) == Must(GetObjId(node, ids))

\* const nodeID = typeof sub[3] === 'string' ? sub[3] : must(getObjId(sub[3]))
NodeID(node, ids) == IF node.k = "string" THEN node ELSE Must(GetObjId(node, ids))

\* serializeSubscription(sub, getObjId): a string, undefined, or the error thrown
SerializeSubscription(s, ids) ==
  LET type == s[1]
      host == IF s[2].k = "string" THEN s[2] ELSE GetObjId(s[2], ids)
      base == <<Digits[type + 1]>> \o <<" ">> \o host.s
      signalID == GetObjId(s[3], ids)
      elmID == Must(GetObjId(s[4], ids))
      nodeID == NodeID(s[4], ids)
  IN  IF ~Truthy(host) THEN Undef
      ELSE IF type = 0 THEN Str(base \o KeySuffix(s[3]))
      ELSE IF ~Truthy(signalID) THEN Undef
      ELSE IF type <= 2
           THEN IF elmID.k = "throw" THEN elmID
                ELSE Str(base \o <<" ">> \o signalID.s \o <<" ">> \o TemplateString(elmID)
                           \o <<" ">> \o TemplateString(s[5]) \o KeySuffix(s[6]))
      ELSE IF type <= 4
           THEN IF nodeID.k = "throw" THEN nodeID
                ELSE Str(base \o <<" ">> \o signalID.s \o <<" ">> \o TemplateString(nodeID)
                           \o KeySuffix(s[5]))
      ELSE Throw("Should not get here")

\* sub.split(' ')
RECURSIVE Split(_)
Split(chars) ==
  IF \A i \in DOMAIN chars : chars[i] # " " THEN <<chars>>
  ELSE LET i == CHOOSE j \in DOMAIN chars :
                  chars[j] = " " /\ \A h \in 1..(j - 1) : chars[h] # " "
       IN  <<SubSeq(chars, 1, i - 1)>> \o Split(SubSeq(chars, i + 1, Len(chars)))

\* parseInt(str, 10): the leading digits, NaN without one
NaN == 0 - 1
RECURSIVE ParseDigits(_, _)
ParseDigits(chars, acc) ==
  IF chars = <<>> \/ chars[1] \notin Range(Digits) THEN acc
  ELSE ParseDigits(Tail(chars), 10 * acc + ((CHOOSE d \in 1..10 : Digits[d] = chars[1]) - 1))
ParseInt(chars) ==
  IF chars = <<>> \/ chars[1] \notin Range(Digits) THEN NaN ELSE ParseDigits(chars, 0)

\* parts[i], undefined past the end
Part(parts, i) == IF i + 1 <= Len(parts) THEN Str(parts[i + 1]) ELSE Undef

\* the host of parseSubscription taken without the test of a task's $el$
ParseHost_NoElTest(parts, objs) == GetObject(Part(parts, 1), objs)

\* the host of parseSubscription: undefined when token 1 resolves to nothing or to a
\* task whose $el$ is gone
ParseHost(parts, objs) ==
  LET host == GetObject(Part(parts, 1), objs)
  IN  IF ~Truthy(host) THEN Undef
      ELSE IF IsSubscriberDescriptor(host) /\ ~Truthy(El(host)) THEN Undef
      ELSE host

\* assertTrue(value, text): throws when value is not true
AssertTrue(value, text, continue) == IF value THEN continue ELSE Throw(text)

\* parseSubscription(sub, getObject): an edge, undefined, or the error thrown
ParseSubscription(text, objs) ==
  LET parts == Split(text)
      type == ParseInt(parts[1])
      host == ParseHost(parts, objs)
      key(i) == SafeDecode(Part(parts, i))
      done(fields, k) == IF k.k = "throw" THEN k ELSE Arr(<<type, host>> \o fields \o <<k>>)
  IN  AssertTrue(Len(parts) >= 2, "At least 2 parts",
        IF host = Undef THEN Undef
        ELSE IF type = 0
             THEN AssertTrue(Len(parts) <= 3, "Max 3 parts", done(<<>>, key(2)))
        ELSE IF type # NaN /\ type <= 2
             THEN AssertTrue(Len(parts) = 5 \/ Len(parts) = 6, "Type 1 has 5",
                    done(<<GetObject(Part(parts, 2), objs), GetObject(Part(parts, 3), objs),
                           Part(parts, 4)>>, key(5)))
        ELSE IF type # NaN /\ type <= 4
             THEN AssertTrue(Len(parts) = 4 \/ Len(parts) = 5, "Type 2 has 4",
                    done(<<GetObject(Part(parts, 2), objs), GetObject(Part(parts, 3), objs)>>,
                         key(4)))
        ELSE Arr(<<type, host>>))

\* the keys of the edges given to the codec: absent, or any string of KeyChars
RECURSIVE StringsUpTo(_)
StringsUpTo(n) ==
  IF n = 0 THEN {<<>>}
  ELSE LET shorter == StringsUpTo(n - 1)
       IN  shorter \cup {Append(str, c) : str \in shorter, c \in KeyChars}
CodecKeys == {Undef} \cup {Str(chars) : chars \in StringsUpTo(MaxKeyLen)}

\* the edges given to serializeSubscription
CodecSubsA == {<<0, g, key>> : g \in {hostA, taskT, taskX}, key \in CodecKeys}
CodecSubsB ==
  {<<type, g, sigS, elE, Str(<<"p">>), key>> :
     type \in {1, 2}, g \in {hostA, taskX}, key \in CodecKeys}
CodecSubsC ==
  {<<type, g, sigS, node, key>> :
     type \in {3, 4}, g \in {hostA, taskX},
     node \in {elE, Str(<<"#", "5">>), Str(<<"#", "9">>)}, key \in CodecKeys}
CodecSubs == CodecSubsA \cup CodecSubsB \cup CodecSubsC

\* all objects, or all but one
AllButOne(objs) == {objs} \cup {objs \ {obj} : obj \in objs}

OtherVarsC == UNCHANGED mvars /\ UNCHANGED vvars

\* the container is paused: the edge is written with the ids of the serialized objects
Serialize ==
  /\ cpc = "start"
  /\ record' = SerializeSubscription(sub, objIds)
  /\ cpc' = "serialized"
  /\ UNCHANGED <<sub, objIds, objects, parsed>>
  /\ OtherVarsC

\* the container is resumed: the serialized objects are restored, one may be gone
Resume(objs) ==
  /\ cpc = "serialized"
  /\ record.k = "string"
  /\ objects' = objs
  /\ cpc' = "resumed"
  /\ UNCHANGED <<sub, objIds, record, parsed>>
  /\ OtherVarsC

\* the record is read back
Parse ==
  /\ cpc = "resumed"
  /\ parsed' = ParseSubscription(record.s, objects)
  /\ cpc' = "parsed"
  /\ UNCHANGED <<sub, objIds, objects, record>>
  /\ OtherVarsC

IdleM ==
  /\ created = {} /\ subs = [m \in Managers |-> <<>>] /\ groupToManagers = <<>>
  /\ scheduled = <<>> /\ last = NoAddSub /\ cleared = NoCleared

InitCodec ==
  /\ cpc = "start"
  /\ sub \in CodecSubs
  /\ objIds \in AllButOne(AllObjects)
  /\ objects = {}
  /\ record = Undef
  /\ parsed = Undef
  /\ IdleM /\ IdleV

NextCodec ==
  \/ Serialize
  \/ \E objs \in AllButOne(objIds) : Resume(objs)
  \/ Parse

SpecCodec == InitCodec /\ [][NextCodec]_vars

(***************************************************************************)
(* parseSubscription on the records of a persisted state that may be       *)
(* damaged: any tag 0 to 4 followed by any number of tokens                *)
(***************************************************************************)
MaxTokens == 7     \* tokens of a record, the tag included

\* token i (counted from 0) of a damaged record; token 1 is a known id or an unknown one
TokenAt(i, hostId) ==
  CASE i = 1 -> hostId
    [] i = 2 -> <<"3">>
    [] i = 3 -> <<"#", "5">>
    [] i = 4 -> <<"p">>
    [] OTHER -> <<"k">>

RECURSIVE JoinTokens(_, _, _)
JoinTokens(i, n, hostId) ==
  IF i >= n THEN <<>> ELSE <<" ">> \o TokenAt(i, hostId) \o JoinTokens(i + 1, n, hostId)

DecodeRecords ==
  {Str(<<Digits[type + 1]>> \o JoinTokens(1, n, hostId)) :
     type \in 0..4, n \in 1..MaxTokens, hostId \in {<<"1", "2">>, <<"8">>, <<"9", "9">>}}

InitDecode ==
  /\ cpc = "resumed"
  /\ sub = <<>>
  /\ objIds = {}
  /\ objects \in AllButOne(AllObjects)
  /\ record \in DecodeRecords
  /\ parsed = Undef
  /\ IdleM /\ IdleV

NextDecode == Parse

SpecDecode == InitDecode /\ [][NextDecode]_vars

(***************************************************************************)
(* verifySerializable                                                      *)
(*                                                                         *)
(* A value is named by a string: "undefined", the number "1", the function *)
(* "fn", the class instance "inst", the URL "url" (a value canSerialize    *)
(* knows), "promise", "node", the containers "c1" and "c2" (an array or a  *)
(* plain object each, described by heap) and "proxy1", a store proxy whose *)
(* target is c1. Hole marks an index of an array that was never assigned.  *)
(***************************************************************************)
MaxSlots == 3      \* array slots and object entries of the heap, over both containers
MaxMarked == 1     \* values passed to noSerialize before the verification
MaxDepth == 3      \* nested _verifySerializable calls (the call stack)

Containers == {"c1", "c2"}
Hole == "<empty>"
SlotValues == {"1", "fn", "inst", "c1", "c2"}
RootValues == {"c1", "proxy1", "undefined", "1", "fn", "inst", "url", "promise", "node"}
Markable == {"c1", "c2", "proxy1", "fn", "inst"}

ArrayShapes(n) == {[kind |-> "array", slots |-> sl] : sl \in [1..n -> SlotValues \cup {Hole}]}
ObjectShapes(n) == {[kind |-> "object", slots |-> sl] : sl \in [1..n -> SlotValues]}
Shapes(n) == ArrayShapes(n) \cup ObjectShapes(n)
EmptyArray == [kind |-> "array", slots |-> <<>>]
EmptyHeap == [c \in Containers |-> EmptyArray]

\* the heaps of at most MaxSlots slots; a container the root cannot reach is left empty
Heaps ==
  UNION {{[c \in Containers |-> IF c = "c1" THEN s1 ELSE s2] :
            s1 \in Shapes(ab[1]),
            s2 \in Shapes(ab[2])} :
         ab \in {x \in (0..MaxSlots) \X (0..MaxSlots) : x[1] + x[2] <= MaxSlots}}
RootedHeaps == {h \in Heaps : "c2" \in Range(h["c1"].slots) \/ h["c2"] = EmptyArray}

\* typeof and the type tests of util/types
IsFunction(v) == v = "fn"
IsObject(v) == v \in Containers \cup {"proxy1", "inst", "url", "promise", "node"}
TypeOf(v) ==
  IF IsFunction(v) THEN "function" ELSE IF IsObject(v) THEN "object"
  ELSE IF v = "undefined" THEN "undefined" ELSE "number"
IsPromise(v) == v = "promise"
IsNode(v) == v = "node"
IsArray(v, h) == v \in Containers /\ h[v].kind = "array"
IsSerializableObject(v, h) == v \in Containers /\ h[v].kind = "object"
CanSerialize(v) == v = "url"

\* getProxyTarget(obj): obj[QOjectTargetSymbol]
GetProxyTarget(obj) == IF obj = "proxy1" THEN "c1" ELSE "undefined"

\* unwrapProxy(proxy)
UnwrapProxy(proxy) ==
  IF IsObject(proxy)
  THEN (IF GetProxyTarget(proxy) # "undefined" THEN GetProxyTarget(proxy) ELSE proxy)
  ELSE proxy

\* shouldSerialize(obj)
ShouldSerialize(obj, marked) ==
  IF IsObject(obj) \/ IsFunction(obj) THEN obj \notin marked ELSE TRUE

NoResult == [k |-> "none", v |-> "", ctx |-> <<>>]
Returned(value) == [k |-> "value", v |-> value, ctx |-> <<>>]
\* qError(QError_verifySerializable, unwrapped)
QError(unwrapped) == [k |-> "QError_verifySerializable", v |-> unwrapped, ctx |-> <<>>]
\* createError(message): the message names ctx and the type of the value
CreateError(value, typeObj, ctx) == [k |-> "Error", v |-> typeObj, ctx |-> ctx]

\* _verifySerializable throwing on a value it has seen before instead of returning it
Verify_SeenThrows(value, seenSet, marked, h) ==
  LET unwrapped == UnwrapProxy(value)
      added == seenSet \cup {unwrapped}
  IN  IF unwrapped = "undefined" THEN [do |-> "return", seen |-> seenSet]
      ELSE IF ~ShouldSerialize(unwrapped, marked) THEN [do |-> "return", seen |-> seenSet]
      ELSE IF unwrapped \in seenSet THEN [do |-> "throw", seen |-> seenSet]
      ELSE IF CanSerialize(unwrapped) THEN [do |-> "return", seen |-> added]
      ELSE IF TypeOf(unwrapped) = "object"
           THEN IF IsPromise(unwrapped) THEN [do |-> "return", seen |-> added]
                ELSE IF IsNode(unwrapped) THEN [do |-> "return", seen |-> added]
                ELSE IF IsArray(unwrapped, h) THEN [do |-> "descend", seen |-> added]
                ELSE IF IsSerializableObject(unwrapped, h) THEN [do |-> "descend", seen |-> added]
                ELSE [do |-> "throw", seen |-> added]
      ELSE IF TypeOf(unwrapped) \in {"boolean", "string", "number"}
           THEN [do |-> "return", seen |-> added]
      ELSE [do |-> "throw", seen |-> added]

\* _verifySerializable without the test of the seen set
Verify_NoSeenTest(value, seenSet, marked, h) ==
  LET unwrapped == UnwrapProxy(value)
      added == seenSet \cup {unwrapped}
  IN  IF unwrapped = "undefined" THEN [do |-> "return", seen |-> seenSet]
      ELSE IF ~ShouldSerialize(unwrapped, marked) THEN [do |-> "return", seen |-> seenSet]
      ELSE IF CanSerialize(unwrapped) THEN [do |-> "return", seen |-> added]
      ELSE IF TypeOf(unwrapped) = "object"
           THEN IF IsPromise(unwrapped) THEN [do |-> "return", seen |-> added]
                ELSE IF IsNode(unwrapped) THEN [do |-> "return", seen |-> added]
                ELSE IF IsArray(unwrapped, h) THEN [do |-> "descend", seen |-> added]
                ELSE IF IsSerializableObject(unwrapped, h) THEN [do |-> "descend", seen |-> added]
                ELSE [do |-> "throw", seen |-> added]
      ELSE IF TypeOf(unwrapped) \in {"boolean", "string", "number"}
           THEN [do |-> "return", seen |-> added]
      ELSE [do |-> "throw", seen |-> added]

\* _verifySerializable(value, seen, ctx) up to its loop over the elements: what the call
\* does next (return value, throw, or descend into the array or object) and the seen set
Verify(value, seenSet, marked, h) ==
  LET unwrapped == UnwrapProxy(value)
      added == seenSet \cup {unwrapped}
  IN  IF unwrapped = "undefined" THEN [do |-> "return", seen |-> seenSet]
      ELSE IF ~ShouldSerialize(unwrapped, marked) THEN [do |-> "return", seen |-> seenSet]
      ELSE IF unwrapped \in seenSet THEN [do |-> "return", seen |-> seenSet]
      ELSE IF CanSerialize(unwrapped) THEN [do |-> "return", seen |-> added]
      ELSE IF TypeOf(unwrapped) = "object"
           THEN IF IsPromise(unwrapped) THEN [do |-> "return", seen |-> added]
                ELSE IF IsNode(unwrapped) THEN [do |-> "return", seen |-> added]
                ELSE IF IsArray(unwrapped, h) THEN [do |-> "descend", seen |-> added]
                ELSE IF IsSerializableObject(unwrapped, h) THEN [do |-> "descend", seen |-> added]
                ELSE [do |-> "throw", seen |-> added]
      ELSE IF TypeOf(unwrapped) \in {"boolean", "string", "number"}
           THEN [do |-> "return", seen |-> added]
      ELSE [do |-> "throw", seen |-> added]

\* the next index at or after i that forEach or Object.entries visits: holes are skipped
RECURSIVE NextPresent(_, _)
NextPresent(slots, i) ==
  IF i > Len(slots) \/ slots[i] # Hole THEN i ELSE NextPresent(slots, i + 1)

Frame(c, ctx) == [c |-> c, i |-> 1, expectIndex |-> 0, ctx |-> ctx]

OtherVarsV == UNCHANGED mvars /\ UNCHANGED cvars

\* noSerialize(input)
NoSerialize(input) ==
  /\ vpc = "start"
  /\ Cardinality(noSerializeSet) < MaxMarked
  /\ input \notin noSerializeSet
  /\ noSerializeSet' = (IF input # "undefined" THEN noSerializeSet \cup {input} ELSE noSerializeSet)
  /\ UNCHANGED <<vpc, heap, root, seen, vstack, vresult>>
  /\ OtherVarsV

\* a _verifySerializable call whose error, thrown inside a loop over elements, is caught
\* by that loop, which goes on
Call_SwallowNested(value, ctx, below) ==
  LET r == Verify(value, seen, noSerializeSet, heap)
  IN  /\ seen' = r.seen
      /\ CASE r.do = "throw" /\ below = <<>> ->
                /\ vpc' = "threw"
                /\ vstack' = <<>>
                /\ vresult' = CreateError(value, TypeOf(UnwrapProxy(value)), ctx)
           [] r.do = "descend" ->
                /\ Len(below) < MaxDepth
                /\ vpc' = "running"
                /\ vstack' = Append(below, Frame(UnwrapProxy(value), ctx))
                /\ vresult' = vresult
           [] OTHER ->
                /\ vpc' = IF below = <<>> THEN "returned" ELSE "running"
                /\ vstack' = below
                /\ vresult' = IF below = <<>> THEN Returned(value) ELSE vresult

\* the outcome of one _verifySerializable call made from the frames below it
Call(value, ctx, below) ==
  LET r == Verify(value, seen, noSerializeSet, heap)
  IN  /\ seen' = r.seen
      /\ CASE r.do = "throw" ->
                /\ vpc' = "threw"
                /\ vstack' = <<>>
                /\ vresult' = CreateError(value, TypeOf(UnwrapProxy(value)), ctx)
           [] r.do = "descend" ->
                /\ Len(below) < MaxDepth
                /\ vpc' = "running"
                /\ vstack' = Append(below, Frame(UnwrapProxy(value), ctx))
                /\ vresult' = vresult
           [] r.do = "return" ->
                /\ vpc' = IF below = <<>> THEN "returned" ELSE "running"
                /\ vstack' = below
                /\ vresult' = IF below = <<>> THEN Returned(value) ELSE vresult

\* verifySerializable(value): seen = new Set(); _verifySerializable(value, seen, '_')
VerifySerializable ==
  /\ vpc = "start"
  /\ Call(root, <<"_">>, <<>>)
  /\ UNCHANGED <<heap, root, noSerializeSet>>
  /\ OtherVarsV

\* one callback of unwrapped.forEach, or one round of the loop over Object.entries
VerifyElement ==
  /\ vpc = "running"
  /\ LET top == vstack[Len(vstack)]
         slots == heap[top.c].slots
         j == NextPresent(slots, top.i)
         isArr == heap[top.c].kind = "array"
         below == [vstack EXCEPT ![Len(vstack)] =
                     [top EXCEPT !.i = j + 1, !.expectIndex = j]]
     IN  /\ j <= Len(slots)
         /\ IF isArr /\ j - 1 # top.expectIndex
            THEN /\ vpc' = "threw"
                 /\ vstack' = <<>>
                 /\ vresult' = QError(top.c)
                 /\ seen' = seen
            ELSE Call(slots[j], Append(top.ctx, j - 1), below)
  /\ UNCHANGED <<heap, root, noSerializeSet>>
  /\ OtherVarsV

\* the loop over the elements is over: return value
VerifyReturn ==
  /\ vpc = "running"
  /\ LET top == vstack[Len(vstack)]
         below == SubSeq(vstack, 1, Len(vstack) - 1)
     IN  /\ NextPresent(heap[top.c].slots, top.i) > Len(heap[top.c].slots)
         /\ vstack' = below
         /\ vpc' = IF below = <<>> THEN "returned" ELSE "running"
         /\ vresult' = IF below = <<>> THEN Returned(root) ELSE vresult
  /\ UNCHANGED <<heap, root, noSerializeSet, seen>>
  /\ OtherVarsV

InitVerify ==
  /\ vpc = "start"
  /\ root \in RootValues
  /\ heap \in (IF UnwrapProxy(root) \in Containers THEN RootedHeaps ELSE {EmptyHeap})
  /\ noSerializeSet = {}
  /\ seen = {}
  /\ vstack = <<>>
  /\ vresult = NoResult
  /\ IdleM /\ IdleC

NextVerify ==
  \/ \E input \in Markable : NoSerialize(input)
  \/ VerifySerializable
  \/ VerifyElement
  \/ VerifyReturn

SpecVerify == InitVerify /\ [][NextVerify]_vars

\* a call that is running is not delayed for ever: JavaScript runs it to completion
SpecVerifyFair ==
  SpecVerify /\ WF_vars(VerifySerializable) /\ WF_vars(VerifyElement) /\ WF_vars(VerifyReturn)

(***************************************************************************)
(* Properties of the subscription managers                                 *)
(***************************************************************************)
\* the step is the second of two $addSub$ calls with the same type-0 subscriber and key
SecondAddSub == last'.op = "addSub" /\ last'.twice

\* C1 (as claimed): after any operations, calling addEdge twice with type-0 edges of the
\* same group and key leaves exactly one stored type-0 edge for that (group, key), the
\* second call changing neither the edge sequence nor the group index.
C1_AddSubTwiceExactlyOne ==
  [][SecondAddSub =>
       /\ subs' = subs
       /\ groupToManagers' = groupToManagers
       /\ CountA(subs'[last'.m], last'.sub[2], last'.key) = 1]_vars

\* C1 (amended): the second of two such addEdge calls changes neither the edge sequence
\* nor the group index, and the manager then holds max(1, n) type-0 edges for that
\* (group, key), n being the number it held before the first call (n > 1 only after
\* addEdges or createManager stored duplicates, which addEdge leaves in place).
C1_AddSubTwiceNoOp ==
  [][SecondAddSub =>
       /\ subs' = subs
       /\ groupToManagers' = groupToManagers
       /\ CountA(subs'[last'.m], last'.sub[2], last'.key) = Max(1, last'.n)]_vars

\* two addEdge calls on a manager that held no such edge: one edge stored, key absent
C1_Witness ==
  /\ last.op = "addSub" /\ last.twice /\ last.n = 0 /\ last.key = Undef
  /\ CountA(subs[last.m], last.sub[2], last.key) = 1

\* C2: once clearGroup(g) ran and no edge of g was added since, a notify on any manager
\* (those that held an edge of g included) passes no edge of group g to the schedule
\* callback, whatever was added, removed, cleared or notified before.
C2_ClearedGroupNotScheduled ==
  \A g \in Groups :
    cleared[g] # {} => \A i \in DOMAIN scheduled : scheduled[i][2] # g

\* a manager emptied of g by clearGroup(g) is notified and schedules its other edges
C2_Witness ==
  \E g \in Groups : \E m \in cleared[g] :
    /\ scheduled # <<>>
    /\ scheduled = subs[m]

\* the edges notify(key) is claimed to schedule: trailing key absent or equal to key,
\* every edge when no key is given
ClaimedKeyMatch(e, key) == key = Undef \/ e[Len(e)] = Undef \/ e[Len(e)] = key
ClaimedScheduled(s, key) == SelectSeq(s, LAMBDA e : ClaimedKeyMatch(e, key))

\* the same with the empty key counting as no key, on the edge and on the call
FalsyKeyMatch(e, key) == ~Truthy(key) \/ ~Truthy(e[Len(e)]) \/ e[Len(e)] = key
FalsyScheduled(s, key) == SelectSeq(s, LAMBDA e : FalsyKeyMatch(e, key))

\* C4 (as claimed): notify(k) schedules exactly once, in insertion order, each stored
\* edge whose trailing key is absent or equals k and no other edge; notify without a
\* key schedules every stored edge.
C4_NotifyAbsentOrEqualKey ==
  [][\A m \in Managers, key \in Keys :
       NotifySubsOp(m, key) => scheduled' = ClaimedScheduled(subs[m], key)]_vars

\* C4 (amended): notify(k) schedules exactly once, in insertion order, each stored edge
\* whose trailing key is absent, empty or equal to k and no other edge; notify without a
\* key or with the empty key schedules every stored edge. Edges of one group are
\* scheduled one by one, never merged.
C4_NotifyFalsyOrEqualKey ==
  [][\A m \in Managers, key \in Keys :
       NotifySubsOp(m, key) => scheduled' = FalsyScheduled(subs[m], key)]_vars

\* notify("j") on a manager holding an edge keyed "k" and others: some scheduled, one skipped
C4_Witness ==
  \E m \in created :
    /\ \E i \in DOMAIN subs[m] : subs[m][i][Len(subs[m][i])] = Str(<<"k">>)
    /\ scheduled # <<>>
    /\ Len(scheduled) < Len(subs[m])
    /\ scheduled = FalsyScheduled(subs[m], Str(<<"j">>))

(***************************************************************************)
(* Properties of the codec                                                 *)
(***************************************************************************)
\* the objects an edge refers to: its group, its signal, its target unless a string
Refs(s) ==
  {s[2]} \cup (IF s[1] = 0 THEN {} ELSE {s[3]} \cup (IF s[4].k = "string" THEN {} ELSE {s[4]}))

\* both resolvers know every object the edge refers to
AllResolve == Refs(sub) \subseteq objIds /\ Refs(sub) \subseteq objects

\* C3 (as claimed): for every edge of tag 0 to 4, key absent, empty or not, target a node
\* or a literal string, encodeEdge then decodeEdge with resolvers that resolve every
\* object of the edge yields an edge structurally equal to the original.
C3_RoundTripEqual ==
  (cpc = "parsed" /\ AllResolve) => parsed = Arr(sub)

\* what the round trip yields: the edge itself, but an empty key comes back absent and
\* a literal string target comes back as whatever getObject resolves that string to
\* (undefined when nothing); an edge whose group is a task without $el$ comes back absent
RoundTrip(s, objs) ==
  LET node == IF s[1] \in {3, 4} /\ s[4].k = "string" THEN [s EXCEPT ![4] = GetObject(s[4], objs)]
              ELSE s
      key == IF node[Len(s)] = Str(<<>>) THEN [node EXCEPT ![Len(s)] = Undef] ELSE node
  IN  IF IsSubscriberDescriptor(s[2]) /\ El(s[2]) = Undef THEN Undef ELSE Arr(key)

\* C3 (amended): encodeEdge then decodeEdge with resolvers that resolve every object of
\* the edge yields an edge structurally equal to the original for every tag 0 to 4 when
\* the key is absent or non-empty and the target is a node object; an empty key is
\* decoded as absent, a literal string target is decoded to the object getObject
\* resolves that string to (undefined when none), and an edge whose group is a task
\* without host element is decoded to absent.
C3_RoundTripUpToKeyAndLiteral ==
  (cpc = "parsed" /\ AllResolve) => parsed = RoundTrip(sub, objects)

\* a type-1 edge whose key is a space went through both directions unchanged
C3_Witness ==
  /\ cpc = "parsed" /\ AllResolve
  /\ sub[1] = 1 /\ sub[6] = Str(<<" ">>)
  /\ record = Str(<<"1", " ", "1", "2", " ", "3", " ", "#", "5", " ", "p", " ", "%", "2", "0">>)
  /\ parsed = Arr(sub)

\* the id resolver misses the group, the signal, a non-string target
GroupUnresolved == sub[2] \notin objIds
SignalUnresolved == sub[1] # 0 /\ sub[3] \notin objIds
TargetUnresolved == sub[1] # 0 /\ sub[4].k # "string" /\ sub[4] \notin objIds

\* C8 (as claimed): when the id resolver has no identifier for the group, the signal or a
\* non-string target of the edge, encodeEdge yields absent: no partial record, no error.
C8_UnresolvedEncodesAbsent ==
  (cpc = "serialized" /\ (GroupUnresolved \/ SignalUnresolved \/ TargetUnresolved))
    => record = Undef

\* C8 (amended): when the id resolver has no identifier for the group or for the watched
\* signal, encodeEdge yields absent; when it has none for a non-string target only,
\* encodeEdge raises the error "must be non null"; in no case is a record produced.
C8_UnresolvedEncodesAbsentOrThrows ==
  (cpc = "serialized" /\ (GroupUnresolved \/ SignalUnresolved \/ TargetUnresolved))
    => record = IF GroupUnresolved \/ SignalUnresolved THEN Undef
                ELSE Throw("must be non null")

\* the signal of a type-2 edge has no id: the edge encodes to absent
C8_Witness ==
  /\ cpc = "serialized" /\ sub[1] = 2
  /\ ~GroupUnresolved /\ SignalUnresolved
  /\ record = Undef

\* the tokens of the record and what tokens 1, 2 and 3 resolve to on resume
Tokens == Split(record.s)
TokenObject(i) == GetObject(Part(Tokens, i), objects)

\* C9: when decodeEdge reads a well-formed record of tag 1 to 4 whose group resolves but
\* whose signal or target identifier does not, it returns absent: never an edge with an
\* undefined signal or target, and no error.
C9_UnresolvedSignalOrTargetDropped ==
  (/\ cpc = "parsed" /\ sub[1] \in 1..4
   /\ ParseHost(Tokens, objects) # Undef
   /\ (TokenObject(2) = Undef \/ TokenObject(3) = Undef))
    => parsed = Undef

\* token 1 resolves to nothing, or to a task whose host element is absent
StaleGroup ==
  \/ TokenObject(1) = Undef
  \/ IsSubscriberDescriptor(TokenObject(1)) /\ El(TokenObject(1)) = Undef

\* C10: decodeEdge returns absent whenever token 1 does not resolve through getObject or
\* resolves to a task whose host element is absent; every edge it returns has a non-null
\* group, the object token 1 resolves to.
C10_StaleGroupDropped ==
  cpc = "parsed" =>
    /\ StaleGroup => parsed = Undef
    /\ parsed.k = "array" => (parsed.s[2] # Undef /\ parsed.s[2] = TokenObject(1) /\ ~StaleGroup)

\* the record of an edge of taskX, a task whose $el$ is gone, resolves and is dropped
C10_Witness ==
  /\ cpc = "parsed"
  /\ TokenObject(1) = taskX
  /\ parsed = Undef

(***************************************************************************)
(* Properties of verifySerializable                                        *)
(***************************************************************************)
Slots(c) == Range(heap[c].slots)
Done == vpc \in {"returned", "threw"}

\* the root is an array with an index that was never assigned, not opted out
RootIsSparseArray ==
  /\ UnwrapProxy(root) = "c1"
  /\ heap["c1"].kind = "array"
  /\ Hole \in Slots("c1")
  /\ "c1" \notin noSerializeSet

\* C5: verify of an array with a missing index at any position, the last one before
\* length included, fails (NotSerializable).
C5_SparseArrayFails ==
  (Done /\ RootIsSparseArray) => vpc = "threw"

\* the containers the walk from the root reaches
ReachedFromRoot ==
  IF UnwrapProxy(root) \notin Containers THEN {}
  ELSE {"c1"} \cup (Slots("c1") \cap {"c2"})

\* every value the walk reaches is a number, a dense array or a plain object
PlainGraph ==
  /\ root \in {"c1", "1"}
  /\ \A c \in ReachedFromRoot : Slots(c) \subseteq {"1", "c1", "c2"}

\* a container of the graph refers back to itself or to an ancestor
CyclicGraph ==
  /\ "c1" \in ReachedFromRoot
  /\ \/ "c1" \in Slots("c1")
     \/ "c2" \in Slots("c1") /\ ("c1" \in Slots("c2") \/ "c2" \in Slots("c2"))

\* C6: on a cyclic graph of plain objects and dense arrays whose values are otherwise
\* serializable, verify terminates and succeeds, returning the value it was given.
C6_CyclicGraphTerminates ==
  (vpc = "start" /\ PlainGraph /\ CyclicGraph)
    ~> (vpc = "returned" /\ vresult = Returned(root))

\* c1 and c2 refer to each other and the verification returned
C6_Witness ==
  /\ vpc = "returned"
  /\ "c2" \in Slots("c1") /\ "c1" \in Slots("c2")
  /\ PlainGraph
  /\ seen = {"c1", "c2"}

\* C7: on an acyclic graph of numbers, dense arrays and plain objects, shared sub-objects
\* and repeated primitives included, verify does not fail and returns the value given.
C7_PlainAcyclicGraphReturned ==
  (PlainGraph /\ ~CyclicGraph) =>
    /\ vpc # "threw"
    /\ vpc = "returned" => vresult = Returned(root)

\* c2 is reached twice from c1 and the verification returned c1
C7_Witness ==
  /\ vpc = "returned"
  /\ root = "c1"
  /\ heap["c1"].slots = <<"c2", "c2">>
  /\ heap["c2"].slots = <<"1">>
  /\ vresult = Returned("c1")

(***************************************************************************)
(* Properties of the codec: damaged records, literal targets               *)
(***************************************************************************)
\* the tag and the number of tokens of the record read
RecordParts == Split(record.s)
RecordType == ParseInt(RecordParts[1])
ArityFits ==
  CASE RecordType = 0 -> Len(RecordParts) \in {2, 3}
    [] RecordType \in {1, 2} -> Len(RecordParts) \in {5, 6}
    [] RecordType \in {3, 4} -> Len(RecordParts) \in {4, 5}
    [] OTHER -> TRUE

\* C11: decodeEdge raises an error, and returns neither absent nor an edge, for every
\* record whose number of tokens does not fit its tag (2 to 3 for tag 0, 5 to 6 for tags
\* 1 and 2, 4 to 5 for tags 3 and 4), whether or not the group id of the record resolves.
C11_ArityMismatchThrows ==
  (cpc = "parsed" /\ ~ArityFits) => parsed.k = "throw"

\* C12: a type 3 or 4 edge whose target is a literal string, with group and signal known
\* to the id resolver, is written as "<tag> <groupId> <signalId> <string>" (then its key,
\* if any) with the string as it is, the id resolver not being asked about the string.
C12_LiteralTargetVerbatim ==
  (/\ cpc # "start"
   /\ sub[1] \in {3, 4} /\ sub[4].k = "string"
   /\ sub[2] \in objIds /\ sub[3] \in objIds)
  => record = Str(<<Digits[sub[1] + 1]>> \o <<" ">> \o IdOf(sub[2]) \o <<" ">> \o IdOf(sub[3])
                    \o <<" ">> \o sub[4].s \o KeySuffix(sub[5]))

\* the edge (3, hostA, sigS, "#9"), no object having the id "#9", was written "3 12 3 #9"
C12_Witness ==
  /\ cpc = "serialized"
  /\ sub = <<3, hostA, sigS, Str(<<"#", "9">>), Undef>>
  /\ GetObjId(sub[4], objIds) = Null
  /\ record = Str(<<"3", " ", "1", "2", " ", "3", " ", "#", "9">>)

(***************************************************************************)
(* Properties of the container's operations and of the group index         *)
(***************************************************************************)
\* the managers listed in the Map under a group
Listed(g2m, group) == IF group \in DOMAIN g2m THEN Range(g2m[group]) ELSE {}

\* what every step of the named operation is, tested before the operation is looked for
\* among the steps: it removed an edge as that operation, or removed none
RemovalStep(op) == last'.op = op \/ (last'.op = "-" /\ scheduled' = <<>> /\ subs' = subs)
\* the step stored no edge and is not recorded as an $addSub$ or a removal
QuietStep == last'.op = "-" /\ TotalSubs' <= TotalSubs
\* the step stored an edge and is not recorded as an $addSub$
GrowthStep == last'.op \in {"-", "readd"} /\ TotalSubs' > TotalSubs
\* the step left the $subs$ of the managers other than m as they were
OnlyManager(m) == \A o \in Managers \ {m} : subs'[o] = subs[o]

\* C13: after clearGroup(g) the group index has no entry for g, the manager list that
\* was stored under g has length zero for whoever still refers to it, and no manager of
\* that list holds an edge of group g; the entries and lists of the other groups are
\* unchanged; clearGroup of a group without entry changes nothing.
C13_ClearSubDetaches ==
  [][RemovalStep("clearSub") => \A g \in Groups :
       ClearSub(g) =>
         /\ DOMAIN groupToManagers' = DOMAIN groupToManagers \ {g}
         /\ \A x \in DOMAIN groupToManagers' : groupToManagers'[x] = groupToManagers[x]
         /\ IF g \in DOMAIN groupToManagers
            THEN /\ last'.managers = <<>>
                 /\ \A m \in Listed(groupToManagers, g) : g \notin GroupsOf(subs'[m])
            ELSE subs' = subs /\ groupToManagers' = groupToManagers]_vars

\* clearGroup(g) ran with both managers holding an edge of g; another group stays listed
C13_Witness ==
  /\ last.op = "clearSub"
  /\ last.managers = <<>>
  /\ \A m \in Managers : last.key \in GroupsOf(last.before[m])
  /\ \A m \in Managers : last.key \notin GroupsOf(subs[m])
  /\ \E x \in DOMAIN groupToManagers : \E m \in Listed(groupToManagers, x) : x \in GroupsOf(subs[m])

\* C14: in every state reached through addEdge, addEdges, clearGroup, clearSignalEdge and
\* notify, each manager listed in the group index under a group g holds at least one
\* edge whose group is g.
C14_ListedManagerHoldsEdge ==
  \A g \in DOMAIN groupToManagers :
    \A m \in Listed(groupToManagers, g) : g \in GroupsOf(subs[m])

\* a manager is listed exactly once in the Map under the group
ListedOnce(g2m, group, m) ==
  /\ group \in DOMAIN g2m
  /\ Cardinality({i \in DOMAIN g2m[group] : g2m[group][i] = m}) = 1

\* C15: in every reachable state the group index lists a manager at most once under a
\* group, however many edges of the group it holds and however often addEdge and addEdges
\* are repeated; the loop by which addEdges registers again the groups of the edges
\* already stored finds the manager listed, once, and leaves the index as it is.
C15_ManagerListedOnce ==
  /\ \A g \in DOMAIN groupToManagers :
       \A i, j \in DOMAIN groupToManagers[g] :
         groupToManagers[g][i] = groupToManagers[g][j] => i = j
  /\ \A m \in created :
       LET again == AddAllToGroup(groupToManagers, subs[m], 1, m)
       IN  /\ again = groupToManagers
           /\ \A g \in GroupsOf(subs[m]) : ListedOnce(again, g, m)

\* one manager holds two edges of a group under which both managers are listed
C15_Witness ==
  \E g \in DOMAIN groupToManagers :
    /\ Len(groupToManagers[g]) = 2
    /\ \E m \in Managers :
         Cardinality({i \in DOMAIN subs[m] : subs[m][i][2] = g}) >= 2

\* C16: removeGroup(g) leaves exactly the edges whose group differs from g, in their
\* original relative order, wherever the edges of g are in the sequence (adjacent, first,
\* last) and whatever their tag.
C16_UnsubGroupKeepsOthersInOrder ==
  [][RemovalStep("unsubGroup") => \A m \in Managers, g \in Groups :
       UnsubGroupOp(m, g) => subs'[m] = SelectSeq(subs[m], LAMBDA e : e[2] # g)]_vars

\* removeGroup(g) on a manager whose first two edges were of g and whose third was not
C16_Witness ==
  /\ last.op = "unsubGroup"
  /\ LET b == last.before[last.m]
     IN  /\ Len(b) = 3
         /\ b[1][2] = last.key /\ b[2][2] = last.key /\ b[3][2] # last.key
         /\ subs[last.m] = <<b[3]>>

\* the match rule of removeSignalEdge as specified: tag, group, signal, target, and the
\* property for tag 1 and 2; the trailing key is not looked at
SignalEdgeMatch(e, entry) ==
  IF e[1] # entry[1] \/ e[1] = 0 THEN FALSE
  ELSE /\ e[2] = entry[2] /\ e[3] = entry[3] /\ e[4] = entry[4]
       /\ (entry[1] \in {1, 2} => e[5] = entry[5])

\* C17: removeSignalEdge(e) removes every stored edge equal to e on tag, group, signal
\* and target and, for tag 1 or 2, on property; no fifth field is compared for tag 3 or 4
\* and the trailing key never; adjacent duplicates are all removed and every other edge
\* stays, in its relative order.
C17_UnsubEntryRemovesMatches ==
  \* a call that removes nothing found nothing to match
  /\ [](\A m \in created, entry \in SignalEntries :
          UnsubEntry(subs[m], 0, entry) = subs[m] =>
            \A i \in DOMAIN subs[m] : ~SignalEdgeMatch(subs[m][i], entry))
  \* a call that removes something removes the matching edges, all of them, and no other
  /\ [][last'.op = "unsubEntry" =>
          (UnsubEntryOp(last'.m, last'.sub) =>
             subs'[last'.m] =
               SelectSeq(subs[last'.m], LAMBDA e : ~SignalEdgeMatch(e, last'.sub)))]_vars

\* removeSignalEdge of a tag-3 edge given with key "k" removed two adjacent stored
\* edges of absent key and left the third edge
C17_Witness ==
  /\ last.op = "unsubEntry"
  /\ last.sub = <<3, taskT, sigS, elE, Str(<<"k">>)>>
  /\ LET b == last.before[last.m]
     IN  /\ Len(b) = 3
         /\ \E i \in 1..2 : b[i] = <<3, taskT, sigS, elE, Undef>> /\ b[i + 1] = b[i]
         /\ Len(subs[last.m]) = 1

\* C18: addEdges(S) appends every edge of S in order with no deduplication (two type-0
\* edges of equal group and key, both in S or one stored before, are both stored
\* afterwards), and the manager is then listed in the group index under the group of
\* each edge of S; the same holds of the edges given to createManager.
C18_AddSubsAppendsAll ==
  [][\* a call that stores an edge
     /\ GrowthStep => \A m \in Managers : OnlyManager(m) => \A ss \in BulkSubs :
          (AddSubs(m, ss) \/ CreateManager(m, ss)) =>
            /\ subs'[m] = subs[m] \o ss
            /\ \A i \in DOMAIN ss : m \in Listed(groupToManagers', ss[i][2])
     \* a call given no edge
     /\ QuietStep => \A m \in Managers :
          (AddSubs(m, <<>>) \/ CreateManager(m, <<>>)) => subs'[m] = subs[m]]_vars

\* a manager holds the same type-0 edge twice
C18_Witness ==
  \E m \in created : \E i \in DOMAIN subs[m] :
    /\ i + 1 \in DOMAIN subs[m]
    /\ subs[m][i][1] = 0
    /\ subs[m][i + 1] = subs[m][i]
    /\ m \in Listed(groupToManagers, subs[m][i][2])

\* C19: notify leaves the edge sequence of the manager and the group index unchanged, so
\* a second notify with the same key passes the same edges in the same order to the
\* schedule callback.
C19_NotifyChangesNothing ==
  [][QuietStep => \A m \in Managers, key \in Keys :
       NotifySubsOp(m, key) =>
         /\ subs' = subs
         /\ groupToManagers' = groupToManagers
         /\ NotifySubs(subs'[m], 1, key) = scheduled']_vars

\* a notify scheduled the three edges of a manager, which it still holds
C19_Witness ==
  \E m \in created :
    /\ Len(subs[m]) = 3
    /\ scheduled = subs[m]
    /\ \A i \in DOMAIN subs[m] : m \in Listed(groupToManagers, subs[m][i][2])

\* C20: after clearSignalEdge(e) no manager listed in the group index under the group of
\* e holds an edge matching e; the group index, the edges of the managers not listed
\* under that group and all edges that do not match are unchanged.
C20_ClearSignalRemovesFromListed ==
  \* a call that removes nothing found no matching edge in the listed managers
  /\ [](\A signal \in SignalEntries :
          (\A m \in Listed(groupToManagers, signal[2]) : UnsubEntry(subs[m], 0, signal) = subs[m])
          => \A m \in Listed(groupToManagers, signal[2]) :
               \A i \in DOMAIN subs[m] : ~SignalEdgeMatch(subs[m][i], signal))
  \* a call that removes something
  /\ [][last'.op = "clearSignal" =>
          (ClearSignal(last'.sub) =>
             /\ groupToManagers' = groupToManagers
             /\ \A m \in Managers :
                  subs'[m] = IF m \in Listed(groupToManagers, last'.sub[2])
                             THEN SelectSeq(subs[m], LAMBDA e : ~SignalEdgeMatch(e, last'.sub))
                             ELSE subs[m])]_vars

\* clearSignalEdge removed the matching edge from both managers, one keeps another edge
C20_Witness ==
  /\ last.op = "clearSignal"
  /\ \A m \in Managers :
       /\ \E i \in DOMAIN last.before[m] : SignalEdgeMatch(last.before[m][i], last.sub)
       /\ \A i \in DOMAIN subs[m] : ~SignalEdgeMatch(subs[m][i], last.sub)
  /\ \E m \in Managers : subs[m] # <<>>

(***************************************************************************)
(* Properties of verifySerializable: opted-out values, unserializable ones *)
(***************************************************************************)
\* the root refers to an unserializable value, or to a missing index, through c2 only
BadBehindC2 ==
  /\ root = "c1"
  /\ Slots("c1") \subseteq {"1", "c2"}
  /\ "c2" \in Slots("c1")
  /\ Slots("c2") \cap {"fn", "inst", Hole} # {}

\* C21: verify accepts any object or function that was passed to noSerialize without
\* looking at what it contains (a marked class instance, a marked function, a marked
\* store), and accepts an array or plain object that reaches an unserializable value
\* through a marked value only.
C21_MarkedValueAccepted ==
  Done =>
    /\ root \in noSerializeSet => (vpc = "returned" /\ vresult = Returned(root))
    /\ (BadBehindC2 /\ "c2" \in noSerializeSet) => (vpc = "returned" /\ vresult = Returned(root))

\* C22: in every state reached through createManager, addEdge, addEdges, clearGroup,
\* clearSignalEdge and notify on the managers of one container, every manager that holds
\* an edge of group g is listed in the group index under g, also when edges of g are
\* added again after clearGroup(g).
C22_HolderIsListed ==
  \A m \in Managers :
    \A g \in GroupsOf(subs[m]) : m \in Listed(groupToManagers, g)

\* an edge of a group that clearGroup had emptied in both managers was stored again by
\* one of them, which is listed under the group while the other holds another edge
C22_Witness ==
  /\ last.op = "readd"
  /\ cleared[last.key] = {}
  /\ \A m \in Managers : last.key \notin GroupsOf(last.before[m])
  /\ last.key \in GroupsOf(subs[last.m])
  /\ Listed(groupToManagers, last.key) = {last.m}
  /\ \E m \in Managers \ {last.m} : subs[m] # <<>>

\* the functions and class instances not passed to noSerialize
Unserializable == {"fn", "inst"} \ noSerializeSet

\* the arrays and plain objects reached from the root through arrays and plain objects
\* that were not passed to noSerialize
Walked ==
  IF UnwrapProxy(root) = "c1" /\ "c1" \notin noSerializeSet
  THEN {"c1"} \cup (IF "c2" \in Slots("c1") /\ "c2" \notin noSerializeSet THEN {"c2"} ELSE {})
  ELSE {}

\* an unmarked function or class instance is the root or an element of such a container,
\* and the arrays among these containers are dense
UnserializableReached ==
  /\ \/ UnwrapProxy(root) \in Unserializable
     \/ \E c \in Walked : Slots(c) \cap Unserializable # {}
  /\ \A c \in Walked : Hole \notin Slots(c)

\* C23: verify fails whenever an unmarked function or unmarked class instance is reached
\* from the root through dense arrays and plain objects only, at any depth, in a cyclic
\* graph and behind a sub-object reached by several paths as well: the seen set never
\* makes such a value accepted and the error of a nested value reaches the caller.
C23_UnserializableReachedFails ==
  (Done /\ UnserializableReached) => (vpc = "threw" /\ vresult.k = "Error")

\* c1 holds c2, which refers back to c1 and then holds a function: the error names _[0][1]
C23_Witness ==
  /\ vpc = "threw"
  /\ root = "c1"
  /\ noSerializeSet = {}
  /\ heap["c1"].slots = <<"c2">>
  /\ heap["c2"].slots = <<"c1", "fn">>
  /\ seen = {"c1", "c2", "fn"}
  /\ vresult = CreateError("fn", "function", <<"_", 0, 1>>)

====
